---- MODULE Spec2Model ----
(***************************************************************************)
(* Session transport bridge and tool dispatch of youtube-transcript-mcp.   *)
(*                                                                         *)
(* Two hosts serve the persistent (SSE) mode with the same transport       *)
(* class: the Next.js route (api/route.ts) and the Express server          *)
(* (unnamed/part_000).  `host` selects which of the two is running; every  *)
(* handler is translated once per host where the two differ.               *)
(*                                                                         *)
(* Session ids come from crypto.randomUUID(): an id is fresh when issued   *)
(* and a client learns it only from the `endpoint` event of the channel,   *)
(* so a POST names either an announced id, an id that was never issued     *)
(* (BogusSid), or no id at all.                                            *)
(*                                                                         *)
(* Spec / FairSpec    the two hosts: GET, POST, timer, client, tool calls  *)
(* TransportSpec      the methods of one NextJsSseTransport, in any order  *)
(* DispatchSpec       listTools and the CallTool handler of mcp.ts with    *)
(*                    its tool handlers and requestJson                    *)
(* RetrySpec / FairRetrySpec   fetchWithRetry of lib/http-client           *)
(* StatelessSpec      the stateless HTTP server (unnamed/part_001)         *)
(* StoreSpec          the store-backed tools of server.ts, two users       *)
(* LibrarySpec        one user's create, search and delete over two videos *)
(* OwnershipSpec      the hosts with the clients of two accounts           *)
(* AnnounceSpec / FairAnnounceSpec   the hosts' channels with close() of   *)
(*                    their transports                                     *)
(***************************************************************************)
EXTENDS Integers, Sequences, FiniteSets, TLC

\* ---------------------------------------------------------------- bounds
MaxSessions == 2
MaxMsgs == 2
MaxRetriesOpt == 3
MaxRequests == 2
MaxRows == 3
MaxStreams == 2

\* ------------------------------------------------------------- universes
Hosts == {"next", "express"}
TransportIds == 1..MaxSessions
NoTransport == 0
SidPool == <<"s1", "s2", "s3", "s4">>
SessionIds == {SidPool[i] : i \in 1..MaxSessions}
BogusSid == "s0"
NoSid == ""
Users == {"u1", "u2"}
NoUser == ""
NoCred == "absent"
BadCred == "bad"
KeyOf(u) == IF u = "u1" THEN "key_u1" ELSE "key_u2"
ValidCreds == {KeyOf(u) : u \in Users}
\* what the clients of one account present: nothing, a key that
\* authenticateApiKey rejects, or the account's key
Creds == {NoCred, BadCred, KeyOf("u1")}

Undef == "undefined"
\* argument objects: a field the object lacks reads as undefined
\* args.ids: an array of items (each a string or not), or no array
NoIds == [isArray |-> FALSE, items |-> <<>>]
NoArgs == [video |-> Undef, video_id |-> Undef, ids |-> NoIds]
ArgsVideoId == [video |-> Undef, video_id |-> "v1", ids |-> NoIds]

UnknownToolName == "unknown_tool"

\* request bodies: an unparseable body, or a tools/call request
Unparseable == [parseable |-> FALSE, id |-> 0, name |-> "", arguments |-> NoArgs]
CallBody(i, n, a) == [parseable |-> TRUE, id |-> i, name |-> n, arguments |-> a]
NoReq == [cred |-> NoCred, sessionId |-> NoSid, body |-> Unparseable]

\* an endpoint announcement framed under the message event name
EndpointAsMessage(sid) == [event |-> "message", sessionId |-> sid, id |-> 0, isError |-> FALSE]
\* channel events: sendEndpoint frames the address (it embeds the session
\* id) as `endpoint`, send frames a JSON-RPC message as `message`
EndpointEvent(sid) == [event |-> "endpoint", sessionId |-> sid, id |-> 0, isError |-> FALSE]
MessageEvent(i, err) == [event |-> "message", sessionId |-> NoSid, id |-> i, isError |-> err]

VARIABLES
    host,              \* which server process is deployed
    activeTransports,  \* Map<sessionId, transport>; NoTransport = no entry
    phase,             \* per transport slot: GET handler position
    sessionOf,         \* sessionId captured by the GET handler's closures
    userOf,            \* user_id the channel's MCP server was created for
    writer,            \* _writer # null
    messageHandler,    \* _messageHandler installed
    timer,             \* the setTimeout(sendEndpoint, 100) of the GET handler
    open,              \* the client still holds the connection
    closeListener,     \* req.on("close") registered (express)
    pending,           \* writes queued on the writer, not yet read
    channel,           \* events the client has received
    sendLog,           \* history: events in the order send/sendEndpoint wrote them
    calls,             \* tool calls whose handler awaits its downstream request
    handlerRuns,       \* history: handler invocations per JSON-RPC id
    http,              \* the stateless POST being served and its response
    nextId,            \* JSON-RPC ids used so far
    removed,           \* history: ids deleted from the directory
    accepted,          \* history: the transport each 202 tools/call went to
    outcomeOf,         \* history: how each tool call's downstream request ended
    sink,              \* the writable side _writer was obtained from
    api,               \* the transport method called last and how it ended
    releases,          \* history: _writer.close() calls that released the sink
    registry,          \* the keys of toolRegistry, in insertion order
    inv,               \* the tools/call request the CallTool handler is serving
    down,              \* downstream requests of that handler still in flight
    envelope,          \* the Result Envelope the CallTool handler returned
    envelopes,         \* history: envelopes returned for the request
    escaped,           \* history: an exception left the CallTool handler
    invoked,           \* history: tool handlers invoked for the request
    result,            \* history: what callTool returned or threw for it
    listed,            \* the result of the last listTools()
    reading,           \* downstream responses whose body is being read
    late,              \* history: requests still pending past their budget
    sent,              \* history: downstream requests the handler issued
    settled,           \* history: how requestJson ended for the running handler
    retryPc,           \* fetchWithRetry: where the call stands
    maxRetries,        \* fetchWithRetry: options.maxRetries of the call
    attempt,           \* fetchWithRetry: the loop counter
    lastError,         \* fetchWithRetry: lastError
    fetched,           \* history: how each fetch of the call ended
    delays,            \* history: the backoff delays the call waited
    retryOutcome,      \* what fetchWithRetry returned or threw
    nodeReq,           \* stateless mode: the request a handler was entered with
    stage,             \* stateless mode: where each request's handler stands
    apiKey,            \* stateless mode: the key in the request's server config
    servers,           \* history: MCP servers (and transports) created per request
    nodeRes,           \* the statuses written to each request's response
    closes,            \* history: server.close() calls per request
    downstreamKeys,    \* history: keys carried by each request's downstream calls
    rows,              \* the user_transcripts table, by row id
    nextRow,           \* row ids handed out so far
    creating,          \* per user: the create_transcript call in progress
    access,            \* history: the rows the last store tool call touched
    reply              \* the content returned by the store tool call that
                       \* acted last; none while that call is still running

apiVars == <<api, releases>>
toolVars == <<registry, inv, down, envelope, envelopes, escaped, invoked,
              result, listed, reading, late, sent, settled>>
channelVars == <<host, activeTransports, phase, sessionOf, userOf, timer,
                 open, closeListener, channel, calls, http, removed,
                 accepted, outcomeOf>>

retryVars == <<retryPc, maxRetries, attempt, lastError, fetched, delays,
               retryOutcome>>
statelessVars == <<nodeReq, stage, apiKey, servers, nodeRes, closes,
                   downstreamKeys>>
storeVars == <<rows, nextRow, creating, access, reply>>
serviceVars == <<retryVars, statelessVars, storeVars>>
sessionVars == <<channelVars, writer, messageHandler, pending, sendLog,
                 handlerRuns, nextId, sink, apiVars, toolVars>>

vars == <<host, activeTransports, phase, sessionOf, userOf, writer,
          messageHandler, timer, open, closeListener, pending, channel,
          sendLog, calls, handlerRuns, http, nextId, removed, accepted,
          outcomeOf, sink, api, releases, registry, inv, down, envelope,
          envelopes, escaped, invoked, result, listed, reading, late, sent,
          settled,
          retryPc, maxRetries,
          attempt, lastError, fetched, delays, retryOutcome, nodeReq, stage,
          apiKey, servers, nodeRes, closes, downstreamKeys, rows, nextRow,
          creating, access>>

\* ------------------------------------------------------------ directory
\* a set that stores nothing
MapSetNothing(m, k, v) == m
\* activeTransports.set / get / delete
MapSet(m, k, v) == [m EXCEPT ![k] = v]
MapGet(m, k) == IF k \in DOMAIN m THEN m[k] ELSE NoTransport
\* a delete that removes nothing
MapDeleteKeeps(m, k) == m
MapDelete(m, k) == IF k \in DOMAIN m THEN [m EXCEPT ![k] = NoTransport] ELSE m

\* authenticateApiKey(authHeader): returns { user_id } or throws
Authenticates(cred) == cred \in ValidCreds
AuthUser(cred) == CHOOSE u \in Users : KeyOf(u) = cred

\* ------------------------------------------------------- tool registry
\* toolRegistry, in registration order
toolRegistry == <<"transcribe_v2", "list_transcripts", "get_transcript",
                  "get_stats", "delete_transcript">>
ToolNames == {registry[i] : i \in DOMAIN registry}
\* property names every object literal inherits from Object.prototype
InheritedNames == {"constructor"}
\* toolRegistry[name]: the tool registered under the name, or what a plain
\* object yields for a key it does not own
Lookup(name) ==
    IF name \in ToolNames THEN "tool"
    ELSE IF name \in InheritedNames THEN "inherited"
    ELSE "undefined"
\* inputSchema.required of each registered tool
Required(name) ==
    CASE name = "transcribe_v2" -> {"video"}
      [] name = "get_transcript" -> {"video_id"}
      [] OTHER -> {}
Lacks(a, f) == a[f] = Undef
MissingRequired(name, a) == \E f \in Required(name) : Lacks(a, f)

\* callTool: "unknown" when the lookup yields nothing and 'Unknown tool' is
\* thrown, "ran" when the named tool's handler is invoked with the
\* arguments, "not_a_function" when the lookup yields an inherited member,
\* which has no handler to call
callTool(name, a) ==
    CASE Lookup(name) = "undefined" -> "unknown"
      [] Lookup(name) = "tool" -> "ran"
      [] OTHER -> "not_a_function"

\* ------------------------------------------------- values and envelopes
\* JavaScript values a handler returns or an error carries
JUndef == [type |-> "undefined", data |-> ""]
JNull == [type |-> "null", data |-> ""]
JStr(s) == [type |-> "string", data |-> s]
JObj(s) == [type |-> "object", data |-> s]

\* response bodies of the downstream service
EmptyText == ""
BlankText == " "
RateLimitedText == "{\"error\":\"rate limited\"}"
TranscriptText == "{\"id\":\"t1\"}"
NoIdText == "{\"items\":[]}"
QuotedText == "\"queued\""
PlainText == "Service Unavailable"
ObjectTexts == {RateLimitedText, TranscriptText, NoIdText}

\* String.prototype.trim on the texts above
Trim(text) == IF text = BlankText THEN EmptyText ELSE text

\* JSON.parse: the value a text denotes, or a SyntaxError
JSONParse(text) ==
    CASE text \in ObjectTexts -> [ok |-> TRUE, val |-> JObj(text)]
      [] text = QuotedText -> [ok |-> TRUE, val |-> JStr("queued")]
      [] OTHER -> [ok |-> FALSE, val |-> JUndef]

\* errors: the class errText tests for, the message, and HttpError's body
NoMessage == [text |-> "", arg |-> ""]
NoError == [class |-> "none", message |-> NoMessage, bodyText |-> EmptyText]
PlainError(text, arg) ==
    [class |-> "Error", message |-> [text |-> text, arg |-> arg],
     bodyText |-> EmptyText]
HttpError(status, bodyText) ==
    [class |-> "HttpError", message |-> [text |-> "HTTP", arg |-> status],
     bodyText |-> bodyText]
Returned(v) == [threw |-> FALSE, val |-> v, err |-> NoError]
NoResult == Returned(JUndef)
Thrown(e) == [threw |-> TRUE, val |-> JUndef, err |-> e]

\* how fetchWithTimeout ends: a response, the abort of the timeout, or a
\* network failure
OkBodies == {EmptyText, BlankText, TranscriptText, NoIdText, QuotedText,
             PlainText}
ErrBodies == {EmptyText, RateLimitedText, PlainText}
FetchOutcomes ==
    {[kind |-> "response", status |-> "200", bodyText |-> b] : b \in OkBodies}
    \cup {[kind |-> "response", status |-> "503", bodyText |-> b] :
             b \in ErrBodies}
    \cup {[kind |-> "abort", status |-> "", bodyText |-> EmptyText],
          [kind |-> "network", status |-> "", bodyText |-> EmptyText]}
ResOk(fo) == fo.status = "200"

\* requestJson, from the outcome of its fetch: HttpError for a response
\* that is not ok; null for an empty body; the parsed body, or its text
\* when it is not JSON
requestJson(fo) ==
    IF fo.kind = "abort"
    THEN Thrown(PlainError("This operation was aborted", ""))
    ELSE IF fo.kind = "network" THEN Thrown(PlainError("fetch failed", ""))
    ELSE IF ~ResOk(fo) THEN Thrown(HttpError(fo.status, fo.bodyText))
    ELSE IF Trim(fo.bodyText) = EmptyText THEN Returned(JNull)
    ELSE IF JSONParse(fo.bodyText).ok THEN Returned(JSONParse(fo.bodyText).val)
    ELSE Returned(JStr(fo.bodyText))

\* an errText that never reads the failure body
errTextNoDetails(e) == [message |-> e.message, details |-> JUndef]
\* errText: { message, details? }; details come from an HttpError's body
errText(e) ==
    IF e.class = "HttpError"
    THEN [message |-> e.message,
          details |-> IF e.bodyText = EmptyText THEN JUndef
                      ELSE IF JSONParse(e.bodyText).ok
                      THEN JSONParse(e.bodyText).val
                      ELSE JStr(e.bodyText)]
    ELSE [message |-> e.message, details |-> JUndef]

\* texts of a content block: a string used as it is, the JSON.stringify of
\* a value, or the JSON.stringify of { error, details }, which leaves out
\* a member whose value is undefined
VerbatimText(v) ==
    [form |-> "verbatim", val |-> v, error |-> NoMessage,
     hasDetails |-> FALSE, details |-> JUndef]
jsonText(v) ==
    [form |-> "json", val |-> v, error |-> NoMessage,
     hasDetails |-> FALSE, details |-> JUndef]
jsonTextOfFailure(e) ==
    [form |-> "json", val |-> JUndef, error |-> e.message,
     hasDetails |-> (e.details.type # "undefined"), details |-> e.details]

\* a success envelope that serializes every value
SuccessAlwaysJson(v) ==
    [content |-> <<jsonText(v)>>, hasIsError |-> FALSE, isError |-> FALSE]
\* the Result Envelopes of the CallTool handler: its try and its catch
SuccessEnvelope(v) ==
    [content |-> <<IF v.type = "string" THEN VerbatimText(v) ELSE jsonText(v)>>,
     hasIsError |-> FALSE, isError |-> FALSE]
FailureEnvelope(err) ==
    [content |-> <<jsonTextOfFailure(errText(err))>>,
     hasIsError |-> TRUE, isError |-> TRUE]
NoEnvelope == [content |-> <<>>, hasIsError |-> FALSE, isError |-> FALSE]

\* ------------------------------------------------------------ transport
\* NextJsSseTransport.send / sendEndpoint: the guard on _writer
CanWrite(t) == writer[t]
\* a write that overtakes the writes already pending
EnqueueFront(q, e) == <<e>> \o q
\* _writer.write: the chunk is queued behind the writes already pending
Enqueue(q, e) == Append(q, e)

\* a stream that takes chunks until its close has completed
AcceptsWhileClosing(t) == sink[t] \in {"open", "closing"}
\* the stream takes a chunk only while it is neither closing nor closed
Accepts(t) == sink[t] = "open"

\* one write on transport t: the pending queue and the history of writes
Write(t, e) ==
    IF CanWrite(t) /\ Accepts(t)
    THEN /\ pending' = [pending EXCEPT ![t] = Enqueue(pending[t], e)]
         /\ sendLog' = [sendLog EXCEPT ![t] = Append(sendLog[t], e)]
    ELSE UNCHANGED <<pending, sendLog>>

\* ------------------------------------------------------- POST /api/mcp
\* route.ts POST: header, authenticateApiKey, req.json(), sessionId, lookup;
\* its catch answers 500
PostStatusNext(req, dir) ==
    IF req.cred = NoCred THEN 401
    ELSE IF ~Authenticates(req.cred) THEN 500
    ELSE IF ~req.body.parseable THEN 500
    ELSE IF req.sessionId = NoSid THEN 400
    ELSE IF MapGet(dir, req.sessionId) = NoTransport THEN 404
    ELSE 202

\* Express app.post: header, authenticateApiKey, sessionId, lookup; the
\* catch answers 500.  The body was parsed by express.json() before the
\* route is entered
PostStatusExpress(req, dir) ==
    IF req.cred = NoCred THEN 401
    ELSE IF ~Authenticates(req.cred) THEN 500
    ELSE IF req.sessionId = NoSid THEN 400
    ELSE IF MapGet(dir, req.sessionId) = NoTransport THEN 404
    ELSE 202

\* a handler that resolves the session without checking the credential
PostStatusSkipsAuth(h, req, dir) ==
    IF ~req.body.parseable THEN 500
    ELSE IF req.sessionId = NoSid THEN 400
    ELSE IF MapGet(dir, req.sessionId) = NoTransport THEN 404
    ELSE 202

PostStatus(h, req, dir) ==
    IF h = "next" THEN PostStatusNext(req, dir) ELSE PostStatusExpress(req, dir)

\* a handlePostMessage that drops every message
ForwardsNothing(t) == FALSE
\* a handlePostMessage that calls the handler whether or not one is set
ForwardsAlways(t) == TRUE
\* handlePostMessage: the message reaches the runtime's handler only when
\* one is installed
Forwards(t) == messageHandler[t]

\* The CallTool request handler, entered from handlePostMessage: an unknown
\* tool is answered at once with an error envelope; a registered tool's
\* handler is invoked and awaits its downstream request
Dispatch(t, body) ==
    IF ~Forwards(t)
    THEN UNCHANGED <<pending, sendLog, calls, handlerRuns>>
    ELSE IF callTool(body.name, body.arguments) # "ran"
    THEN /\ Write(t, MessageEvent(body.id, TRUE))
         /\ UNCHANGED <<calls, handlerRuns>>
    ELSE /\ calls' = calls \cup {[t |-> t, id |-> body.id, name |-> body.name,
                                  arguments |-> body.arguments]}
         /\ handlerRuns' = [handlerRuns EXCEPT ![body.id] = @ + 1]
         /\ UNCHANGED <<pending, sendLog>>

\* ------------------------------------------------------ lib/http-client
\* FetchWithRetryOptions.maxRetries: absent, or a number of attempts
DefaultMaxRetries == 3
NoOption == [given |-> FALSE, n |-> 0]
Option(n) == [given |-> TRUE, n |-> n]
RetryOptions == {NoOption} \cup {Option(n) : n \in -1..MaxRetriesOpt}
MaxRetriesOf(opt) == IF opt.given THEN opt.n ELSE DefaultMaxRetries

\* how one fetchWithTimeout ends: a response with a status, a network
\* failure, or the AbortError of its timeout
retryStatusCodes == {429, 500, 502, 503, 504}
Statuses == {200, 404} \cup retryStatusCodes
AttemptOutcomes ==
    {[kind |-> "response", status |-> st] : st \in Statuses}
    \cup {[kind |-> "network", status |-> 0], [kind |-> "abort", status |-> 0]}
\* response.ok
StatusOk(st) == st >= 200 /\ st <= 299

\* the errors of fetchWithRetry
NullError == [text |-> "null", n |-> 0]
RetryError(text, n) == [text |-> text, n |-> n]
StatusError(st) == RetryError("HTTP", st)
NetworkError == RetryError("fetch failed", 0)
AbortError == RetryError("This operation was aborted", 0)
TimeoutError == RetryError("Request timeout after", 0)
ExhaustedError == RetryError("Request failed after retries", 0)
ErrorOf(o) ==
    CASE o.kind = "response" -> StatusError(o.status)
      [] o.kind = "abort" -> AbortError
      [] OTHER -> NetworkError

NoRetryOutcome == [kind |-> "none", status |-> 0, error |-> NullError]
ReturnedResponse(st) == [kind |-> "response", status |-> st, error |-> NullError]
ThrownError(e) == [kind |-> "error", status |-> 0, error |-> e]

\* a loop that runs one attempt more than maxRetries
LoopContinuesOneMore(a, m) == a <= m + 1
\* for (let attempt = 1; attempt <= maxRetries; attempt++)
LoopContinues(a, m) == a <= m

\* a response is handed back whatever its status
ReturnsAnyResponse(o) == o.kind = "response"
\* response.ok || !retryStatusCodes.has(response.status)
ReturnsResponse(o) ==
    o.kind = "response" /\ (StatusOk(o.status) \/ o.status \notin retryStatusCodes)

\* a catch that treats the abort like any other failure
AbortNeverSeen(o) == FALSE
\* error instanceof Error && error.name === 'AbortError'
IsAbort(o) == o.kind = "abort"

\* Math.min(1000 * Math.pow(2, attempt - 1), 5000)
BackoffBaseMs == 1000
BackoffCapMs == 5000
Delay(a) ==
    IF BackoffBaseMs * (2 ^ (a - 1)) < BackoffCapMs
    THEN BackoffBaseMs * (2 ^ (a - 1)) ELSE BackoffCapMs

\* ------------------------------------------------- stateless HTTP mode
RequestIds == 1..MaxRequests
\* no key: getApiKeyFromRequest's null; the empty string is as falsy
NoKey == ""
\* a header of the request: absent, or present with a value
NoHeader == [present |-> FALSE, value |-> ""]
Header(v) == [present |-> TRUE, value |-> v]
\* an Authorization header: the scheme word, whether whitespace follows it,
\* and the rest of the line
NoAuth == [present |-> FALSE, scheme |-> "", space |-> FALSE, rest |-> ""]
Auth(sch, sp, rest) == [present |-> TRUE, scheme |-> sch, space |-> sp, rest |-> rest]
AuthHeaders ==
    {NoAuth, Auth("Bearer", TRUE, "kb"), Auth("bearer", TRUE, "kb"),
     Auth("Basic", TRUE, "kb"), Auth("Bearer", FALSE, "")}
NodeReqs ==
    [xApiToken : {NoHeader, Header(""), Header("kx")},
     authorization : AuthHeaders,
     key : {NoHeader, Header(""), Header("kq")}]
NoNodeReq == [xApiToken |-> NoHeader, authorization |-> NoAuth, key |-> NoHeader]

\* a JavaScript string in a condition
Truthy(h) == h.present /\ h.value # ""
\* String.prototype.match(/^Bearer\s+(.+)$/i): the captured token, or no match
ToLower(sch) == IF sch = "Bearer" THEN "bearer" ELSE IF sch = "Basic" THEN "basic" ELSE sch
BearerMatch(a) ==
    IF a.present /\ ToLower(a.scheme) = "bearer" /\ a.space /\ a.rest # ""
    THEN Header(a.rest) ELSE NoHeader

\* a resolution that looks at the query parameter first
getApiKeyQueryFirst(q) ==
    IF Truthy(q.key) THEN q.key.value
    ELSE IF Truthy(q.xApiToken) THEN q.xApiToken.value
    ELSE IF BearerMatch(q.authorization).present
    THEN BearerMatch(q.authorization).value
    ELSE NoKey
\* getApiKeyFromRequest: x-api-token, then Authorization: Bearer, then ?key=
getApiKeyFromRequest(q) ==
    IF Truthy(q.xApiToken) THEN q.xApiToken.value
    ELSE IF BearerMatch(q.authorization).present
    THEN BearerMatch(q.authorization).value
    ELSE IF Truthy(q.key) THEN q.key.value
    ELSE NoKey

\* ------------------------------------------------------- store (server.ts)
\* servers are created per authenticated user_id; rows get fresh ids
StoreUsers == {"u1", "u2"}
\* the videos transcripts are created for, and one nobody has a row of
Videos == {"v1"}
UnknownVideo == "v0"
RowIds == 1..MaxRows
NoRowId == 0
NoVideo == ""
\* a row of user_transcripts; status "absent": no row with this id
NoRow == [user_id |-> "", video_id |-> "", status |-> "absent", text |-> ""]
Row(u, v, st, txt) == [user_id |-> u, video_id |-> v, status |-> st, text |-> txt]
NotCreating == [stage |-> "idle", video |-> NoVideo, id |-> NoRowId]
NoAccess == [by |-> "", read |-> {}, returned |-> {}, wrote |-> {}]
Access(u, read, returned, wrote) ==
    [by |-> u, read |-> read, returned |-> returned, wrote |-> wrote]
\* the content of a tool result: what it says and the row ids it names
NoReply == [kind |-> "none", ids |-> <<>>]
Reply(kind, ids) == [kind |-> kind, ids |-> ids]
ErrorReply == Reply("error", <<>>)

\* the rows in the table and the user_ids of a set of rows
Present == {i \in RowIds : rows[i].status # "absent"}
OwnersOf(S) == {rows[i].user_id : i \in S}
\* .eq("user_id", userId)
Owned(u) == {i \in Present : rows[i].user_id = u}
\* .order("created_at", { ascending: false }): ids follow insertion time
RECURSIVE Desc(_)
Desc(S) ==
    IF S = {} THEN <<>>
    ELSE LET top == CHOOSE i \in S : \A j \in S : j <= i
         IN <<top>> \o Desc(S \ {top})
ToSet(q) == {q[i] : i \in DOMAIN q}
\* .limit(n) and .range(from, to) on an ordered result
Limit(q, n) == SubSeq(q, 1, IF n < Len(q) THEN n ELSE Len(q))
Range(q, from, to) == SubSeq(q, from + 1, IF to + 1 < Len(q) THEN to + 1 ELSE Len(q))

\* the queries of get_transcript and export_transcript: by id, else the
\* most recent row of the video
ById(S, id) == {i \in S : i = id}
ByVideo(S, v) == ToSet(Limit(Desc({i \in S : rows[i].video_id = v}), 1))
Succeeded(S) == {i \in S : rows[i].status = "succeeded"}
\* .maybeSingle(): the row when exactly one matches, else no data
MaybeSingle(S) == IF Cardinality(S) = 1 THEN S ELSE {}

\* String.prototype.includes on the title and text of a row, for the
\* search terms "v1" (a title) and "cap" (a caption text)
Title(v) == v
Matches(i, term) == Title(rows[i].video_id) = term \/ rows[i].text = term

\* a delete that filters by id alone
DeleteFilterByIdOnly(u, target) == {i \in Present : i = target}
\* delete().eq("id", targetId).eq("user_id", userId)
DeleteFilter(u, target) == {i \in Present : i = target /\ rows[i].user_id = u}
\* update(...).eq("id", newTranscript.id)
UpdateFilter(target) == {i \in Present : i = target}
\* getUserPreferredLanguage(supabase, userId): the users rows it reads
getUserPreferredLanguage(u) == {u}

\* ---------------------------------------------------------------- state
\* no transport method called yet; no tools/call request being served
NoCall == [op |-> "none", t |-> NoTransport, result |-> "none", tick |-> FALSE]
NoInvocation == [state |-> "idle", name |-> "", arguments |-> NoArgs,
                 stage |-> "none"]

Init ==
    /\ host \in Hosts
    /\ activeTransports = [s \in SessionIds |-> NoTransport]
    /\ phase = [t \in TransportIds |-> "free"]
    /\ sessionOf = [t \in TransportIds |-> NoSid]
    /\ userOf = [t \in TransportIds |-> NoUser]
    /\ writer = [t \in TransportIds |-> FALSE]
    /\ messageHandler = [t \in TransportIds |-> FALSE]
    /\ timer = [t \in TransportIds |-> "none"]
    /\ open = [t \in TransportIds |-> FALSE]
    /\ closeListener = [t \in TransportIds |-> FALSE]
    /\ pending = [t \in TransportIds |-> <<>>]
    /\ channel = [t \in TransportIds |-> <<>>]
    /\ sendLog = [t \in TransportIds |-> <<>>]
    /\ calls = {}
    /\ handlerRuns = [i \in 1..MaxMsgs |-> 0]
    /\ http = [state |-> "idle", req |-> NoReq, status |-> 0]
    /\ nextId = 0
    /\ removed = {}
    /\ accepted = [i \in 1..MaxMsgs |-> NoTransport]
    /\ outcomeOf = [i \in 1..MaxMsgs |-> "none"]
    /\ sink = [t \in TransportIds |-> "none"]
    /\ api = NoCall
    /\ releases = [t \in TransportIds |-> 0]
    /\ registry = toolRegistry
    /\ inv = NoInvocation
    /\ down = {}
    /\ envelope = NoEnvelope
    /\ envelopes = 0
    /\ escaped = FALSE
    /\ invoked = 0
    /\ result = NoResult
    /\ listed = <<>>
    /\ reading = {}
    /\ late = {}
    /\ sent = <<>>
    /\ settled = <<>>
    /\ retryPc = "idle"
    /\ maxRetries = DefaultMaxRetries
    /\ attempt = 0
    /\ lastError = NullError
    /\ fetched = <<>>
    /\ delays = <<>>
    /\ retryOutcome = NoRetryOutcome
    /\ nodeReq = [r \in RequestIds |-> NoNodeReq]
    /\ stage = [r \in RequestIds |-> "free"]
    /\ apiKey = [r \in RequestIds |-> NoKey]
    /\ servers = [r \in RequestIds |-> 0]
    /\ nodeRes = [r \in RequestIds |-> <<>>]
    /\ closes = [r \in RequestIds |-> 0]
    /\ downstreamKeys = [r \in RequestIds |-> {}]
    /\ rows = [i \in RowIds |-> NoRow]
    /\ nextRow = 0
    /\ creating = [u \in StoreUsers |-> NotCreating]
    /\ access = NoAccess
    /\ reply = NoReply

\* session ids the GET handlers have issued, and those a client can know:
\* the ones an endpoint event has carried to a client
Issued == {sessionOf[t] : t \in TransportIds} \ {NoSid}
Announced ==
    {s \in SessionIds : \E t \in TransportIds : \E i \in DOMAIN channel[t] :
        channel[t][i] = EndpointEvent(s)}

\* -------------------------------------------------------- GET /api/mcp
\* A client opens the channel with a valid key; the handler awaits
\* authenticateApiKey, which yields the key's user_id
GetArrive(t, cred) ==
    /\ phase[t] = "free"
    /\ \A x \in TransportIds : x < t => phase[x] # "free"
    /\ Authenticates(cred)
    /\ phase' = [phase EXCEPT ![t] = "auth"]
    /\ open' = [open EXCEPT ![t] = TRUE]
    /\ userOf' = [userOf EXCEPT ![t] = AuthUser(cred)]
    /\ UNCHANGED <<host, activeTransports, sessionOf, writer, messageHandler,
                   timer, closeListener, pending, channel, sendLog, calls,
                   handlerRuns, http, nextId, removed, accepted,
                   outcomeOf>>
    /\ UNCHANGED <<sink, apiVars, toolVars, serviceVars>>

\* After authentication: new transport, initResponseStream, register under
\* a fresh randomUUID, connect (installs onmessage, start()), arm the
\* endpoint timer; Express also listens for the request's close
GetEstablish(t, sid) ==
    /\ phase[t] = "auth"
    /\ sid \in SessionIds \ Issued
    /\ writer' = [writer EXCEPT ![t] = TRUE]
    /\ sink' = [sink EXCEPT ![t] = "open"]
    /\ sessionOf' = [sessionOf EXCEPT ![t] = sid]
    /\ activeTransports' = MapSet(activeTransports, sid, t)
    /\ messageHandler' = [messageHandler EXCEPT ![t] = TRUE]
    /\ timer' = [timer EXCEPT ![t] = "armed"]
    /\ closeListener' = [closeListener EXCEPT ![t] = (host = "express")]
    /\ phase' = [phase EXCEPT ![t] = "live"]
    /\ UNCHANGED <<host, userOf, open, pending, channel, sendLog, calls,
                   handlerRuns, http, nextId, removed, accepted,
                   outcomeOf>>
    /\ UNCHANGED <<apiVars, toolVars, serviceVars>>

\* a timer that stays armed after it fired, like setInterval
TimerRepeats(t) == "armed"
\* setTimeout runs its callback once
TimerAfterFire(t) == "done"

\* setTimeout(() => transport.sendEndpoint(...).catch(...), 100)
TimerFire(t) ==
    /\ timer[t] = "armed"
    /\ timer' = [timer EXCEPT ![t] = TimerAfterFire(t)]
    /\ Write(t, EndpointEvent(sessionOf[t]))
    /\ UNCHANGED <<host, activeTransports, phase, sessionOf, userOf, writer,
                   messageHandler, open, closeListener, channel, calls,
                   handlerRuns, http, nextId, removed, accepted,
                   outcomeOf>>
    /\ UNCHANGED <<sink, apiVars, toolVars, serviceVars>>

\* The client reads the next queued event from the response stream
Flush(t) ==
    /\ open[t]
    /\ pending[t] # <<>>
    /\ channel' = [channel EXCEPT ![t] = Append(channel[t], Head(pending[t]))]
    /\ pending' = [pending EXCEPT ![t] = Tail(pending[t])]
    /\ UNCHANGED <<host, activeTransports, phase, sessionOf, userOf, writer,
                   messageHandler, timer, open, closeListener, sendLog, calls,
                   handlerRuns, http, nextId, removed, accepted,
                   outcomeOf>>
    /\ UNCHANGED <<sink, apiVars, toolVars, serviceVars>>

\* The client drops the connection; req.on("close") deletes the session
\* where a listener was registered in time
Disconnect(t) ==
    /\ open[t]
    /\ open' = [open EXCEPT ![t] = FALSE]
    /\ IF closeListener[t]
       THEN /\ activeTransports' = MapDelete(activeTransports, sessionOf[t])
            /\ removed' = removed \cup {sessionOf[t]}
       ELSE UNCHANGED <<activeTransports, removed>>
    /\ UNCHANGED <<host, phase, sessionOf, userOf, writer, messageHandler,
                   timer, closeListener, pending, channel, sendLog, calls,
                   handlerRuns, http, nextId, accepted,
                   outcomeOf>>
    /\ UNCHANGED <<sink, apiVars, toolVars, serviceVars>>

\* ------------------------------------------------------- stateless POST
SessionArgs == {NoArgs, ArgsVideoId}
SessionTools == {"get_transcript", UnknownToolName}
PostSids == {NoSid, BogusSid} \cup Announced

\* the request bodies a handler is entered with: a tools/call request
\* carrying the next unused JSON-RPC id, or a body that is not JSON (the
\* Express route never sees one: express.json() answers it before the route)
PostBodies ==
    (IF host = "next" THEN {Unparseable} ELSE {}) \cup
    (IF nextId < MaxMsgs
     THEN {CallBody(nextId + 1, n, a) : n \in SessionTools, a \in SessionArgs}
     ELSE {})

\* A POST arrives: any credential, a session id the client can name, a body
ClientPost(cred, sid, body) ==
    /\ http.state # "received"
    /\ http' = [state |-> "received", status |-> 0,
                req |-> [cred |-> cred, sessionId |-> sid, body |-> body]]
    /\ UNCHANGED <<host, activeTransports, phase, sessionOf, userOf, writer,
                   messageHandler, timer, open, closeListener, pending,
                   channel, sendLog, calls, handlerRuns, nextId, removed, accepted,
                   outcomeOf>>
    /\ UNCHANGED <<sink, apiVars, toolVars, serviceVars>>

\* The POST handler serves the request: a status, and on 202 the message
\* has been handed to the session's transport
Post ==
    /\ http.state = "received"
    /\ LET st == PostStatus(host, http.req, activeTransports)
       IN /\ http' = [state |-> "answered", status |-> st, req |-> NoReq]
          /\ IF st = 202
             THEN /\ Dispatch(MapGet(activeTransports, http.req.sessionId),
                              http.req.body)
                  /\ nextId' = http.req.body.id
                  /\ accepted' = [accepted EXCEPT ![http.req.body.id] =
                                     MapGet(activeTransports, http.req.sessionId)]
             ELSE UNCHANGED <<pending, sendLog, calls, handlerRuns, nextId,
                              accepted>>
    /\ UNCHANGED <<host, activeTransports, phase, sessionOf, userOf, writer,
                   messageHandler, timer, open, closeListener, channel,
                   removed, outcomeOf>>
    /\ UNCHANGED <<sink, apiVars, toolVars, serviceVars>>

\* ------------------------------------------------------ tool completion
Outcomes == {"ok", "http_error", "timeout"}
\* an envelope that never carries isError
IsErrorNever(outcome) == FALSE
\* the Result Envelope of a finished handler: isError exactly on failure
IsErrorOf(outcome) == outcome # "ok"

\* The downstream request of a running tool call settles; the CallTool
\* handler renders the envelope and the runtime sends it on the transport
CompleteCall(c, outcome) ==
    /\ c \in calls
    /\ calls' = calls \ {c}
    /\ outcomeOf' = [outcomeOf EXCEPT ![c.id] = outcome]
    /\ Write(c.t, MessageEvent(c.id, IsErrorOf(outcome)))
    /\ UNCHANGED <<host, activeTransports, phase, sessionOf, userOf, writer,
                   messageHandler, timer, open, closeListener, channel,
                   handlerRuns, http, nextId, removed, accepted>>
    /\ UNCHANGED <<sink, apiVars, toolVars, serviceVars>>

\* the steps of the channels: everything but the arrival of a POST
ChannelNext ==
    \/ \E t \in TransportIds, cred \in Creds : GetArrive(t, cred)
    \/ \E t \in TransportIds, sid \in SessionIds : GetEstablish(t, sid)
    \/ \E t \in TransportIds : TimerFire(t)
    \/ \E t \in TransportIds : Flush(t)
    \/ \E t \in TransportIds : Disconnect(t)
    \/ Post
    \/ \E c \in calls, o \in Outcomes : CompleteCall(c, o)

Next ==
    \/ ChannelNext
    \/ \E cred \in Creds, sid \in PostSids, body \in PostBodies :
          ClientPost(cred, sid, body)

Spec == Init /\ [][Next]_vars

\* The hand-off under scheduling, for POSTs that carry a valid credential.
\* Scheduling: a request that arrived is served, an armed timer fires, a
\* downstream request settles, and a connected client reads what is queued
\* for it
AuthedNext ==
    \/ ChannelNext
    \/ \E cred \in Creds \cap ValidCreds, sid \in PostSids, body \in PostBodies :
          ClientPost(cred, sid, body)

FairSpec ==
    /\ Init /\ [][AuthedNext]_vars
    /\ WF_vars(Post)
    /\ \A t \in TransportIds : WF_vars(TimerFire(t)) /\ WF_vars(Flush(t))
    /\ WF_vars(\E c \in calls, o \in Outcomes : CompleteCall(c, o))

\* The clients of two accounts, each with its own valid key, open channels
\* and post to the session ids that were announced
OwnershipNext ==
    \/ \E t \in TransportIds, u \in Users : GetArrive(t, KeyOf(u))
    \/ \E t \in TransportIds, sid \in SessionIds : GetEstablish(t, sid)
    \/ \E t \in TransportIds : TimerFire(t)
    \/ \E t \in TransportIds : Flush(t)
    \/ \E u \in Users, sid \in PostSids, body \in PostBodies :
          ClientPost(KeyOf(u), sid, body)
    \/ Post
    \/ \E c \in calls, o \in Outcomes : CompleteCall(c, o)

OwnershipSpec == Init /\ [][OwnershipNext]_vars

\* ------------------------------------------- NextJsSseTransport methods
\* The methods of one transport, called in any order by its owner.  The
\* hosts call initResponseStream once, right after construction; the method
\* itself has no guard, and is taken here on a new transport and on one
\* whose close has completed
Call(op, t, res) ==
    api' = [op |-> op, t |-> t, result |-> res, tick |-> ~api.tick]

\* initResponseStream: a new TransformStream, its writer kept in _writer
InitResponseStream(t) ==
    /\ sink[t] \in {"none", "closed"}
    /\ releases[t] < MaxStreams
    /\ writer' = [writer EXCEPT ![t] = TRUE]
    /\ sink' = [sink EXCEPT ![t] = "open"]
    /\ Call("initResponseStream", t, "ok")
    /\ UNCHANGED <<serviceVars, channelVars, toolVars, messageHandler, pending, sendLog,
                   handlerRuns, nextId, releases>>

\* a start that never throws
StartResultAlwaysOk(t) == "ok"
\* start: throws unless _writer is set
StartResult(t) == IF writer[t] THEN "ok" ELSE "error"

Start(t) ==
    /\ Call("start", t, StartResult(t))
    /\ UNCHANGED <<serviceVars, channelVars, toolVars, writer, messageHandler, pending,
                   sendLog, handlerRuns, nextId, sink, releases>>

\* set onmessage
SetOnMessage(t) ==
    /\ messageHandler' = [messageHandler EXCEPT ![t] = TRUE]
    /\ Call("onmessage", t, "ok")
    /\ UNCHANGED <<serviceVars, channelVars, toolVars, writer, pending, sendLog,
                   handlerRuns, nextId, sink, releases>>

\* send / sendEndpoint: throw when _writer is null; otherwise the awaited
\* _writer.write rejects when the stream no longer takes chunks
SendResult(t) == IF CanWrite(t) /\ Accepts(t) THEN "ok" ELSE "error"

\* send(message), for the next unused JSON-RPC id
Send(t) ==
    /\ nextId < MaxMsgs
    /\ nextId' = nextId + 1
    /\ Write(t, MessageEvent(nextId + 1, FALSE))
    /\ Call("send", t, SendResult(t))
    /\ UNCHANGED <<serviceVars, channelVars, toolVars, writer, messageHandler,
                   handlerRuns, sink, releases>>

\* sendEndpoint(endpoint)
SendEndpoint(t, sid) ==
    /\ Len(sendLog[t]) < MaxMsgs
    /\ Write(t, EndpointEvent(sid))
    /\ Call("sendEndpoint", t, SendResult(t))
    /\ UNCHANGED <<serviceVars, channelVars, toolVars, writer, messageHandler,
                   handlerRuns, nextId, sink, releases>>

\* close, up to its await: nothing to do without a writer; otherwise
\* _writer.close(), which a stream that is already closing rejects
Close(t) ==
    /\ IF ~writer[t]
       THEN /\ Call("close", t, "ok")
            /\ UNCHANGED <<sink, releases>>
       ELSE IF sink[t] = "open"
       THEN /\ sink' = [sink EXCEPT ![t] = "closing"]
            /\ releases' = [releases EXCEPT ![t] = @ + 1]
            /\ Call("close", t, "awaiting")
       ELSE /\ Call("close", t, "error")
            /\ UNCHANGED <<sink, releases>>
    /\ UNCHANGED <<serviceVars, channelVars, toolVars, writer, messageHandler, pending,
                   sendLog, handlerRuns, nextId>>

\* the awaited _writer.close() resolves: _writer = null
CloseSettles(t) ==
    /\ sink[t] = "closing"
    /\ sink' = [sink EXCEPT ![t] = "closed"]
    /\ writer' = [writer EXCEPT ![t] = FALSE]
    /\ Call("closed", t, "ok")
    /\ UNCHANGED <<serviceVars, channelVars, toolVars, messageHandler, pending, sendLog,
                   handlerRuns, nextId, releases>>

\* handlePostMessage(message), for the next unused JSON-RPC id: the message
\* goes to the installed handler, if any; nothing is thrown
HandlePostMessage(t) ==
    /\ nextId < MaxMsgs
    /\ nextId' = nextId + 1
    /\ IF Forwards(t)
       THEN handlerRuns' = [handlerRuns EXCEPT ![nextId + 1] = @ + 1]
       ELSE UNCHANGED handlerRuns
    /\ Call("handlePostMessage", t, "ok")
    /\ UNCHANGED <<serviceVars, channelVars, toolVars, writer, messageHandler, pending,
                   sendLog, sink, releases>>

\* the transports are independent objects: one instance takes the calls
ApiTransports == {t \in TransportIds : \A x \in TransportIds : t <= x}
TransportNext ==
    \/ \E t \in ApiTransports : InitResponseStream(t)
    \/ \E t \in ApiTransports : Start(t)
    \/ \E t \in ApiTransports : SetOnMessage(t)
    \/ \E t \in ApiTransports : Send(t)
    \/ \E t \in ApiTransports, sid \in SessionIds : SendEndpoint(t, sid)
    \/ \E t \in ApiTransports : Close(t)
    \/ \E t \in ApiTransports : CloseSettles(t)
    \/ \E t \in ApiTransports : HandlePostMessage(t)

TransportSpec == Init /\ [][TransportNext]_vars

\* The channels of the hosts together with close() on their transports:
\* the MCP server of a session closes its transport (Server.close), at any
\* time after the channel was established
ServerCloses(t) == phase[t] = "live" /\ writer[t] /\ Close(t)
AnnounceNext ==
    \/ \E t \in TransportIds, cred \in Creds : GetArrive(t, cred)
    \/ \E t \in TransportIds, sid \in SessionIds : GetEstablish(t, sid)
    \/ \E t \in TransportIds : TimerFire(t)
    \/ \E t \in TransportIds : Flush(t)
    \/ \E t \in TransportIds : Disconnect(t)
    \/ \E t \in TransportIds : ServerCloses(t)
    \/ \E t \in TransportIds : CloseSettles(t)

AnnounceSpec == Init /\ [][AnnounceNext]_vars
\* Scheduling: an armed timer fires
FairAnnounceSpec ==
    /\ AnnounceSpec
    /\ \A t \in TransportIds : WF_vars(TimerFire(t))

\* ---------------------------------------------------------- tools/call
\* the tool descriptors: listTools maps every registry entry to its schema
Schema(name) == [name |-> name, required |-> Required(name)]
\* a listing in the reverse of the registration order
listToolsReversed ==
    [i \in DOMAIN registry |-> Schema(registry[Len(registry) + 1 - i])]
listTools == [i \in DOMAIN registry |-> Schema(registry[i])]

ListTools ==
    /\ listed' = listTools
    /\ UNCHANGED <<registry, inv, down, envelope, envelopes, escaped, invoked,
                   result, reading, late, sent, settled>>
    /\ UNCHANGED <<serviceVars, channelVars, writer, messageHandler, pending, sendLog,
                   handlerRuns, nextId, sink, apiVars>>

\* the requests of a client: any name, any argument object
IdItem == [str |-> TRUE, v |-> "t1"]
NonStringItem == [str |-> FALSE, v |-> "7"]
IdsValues == {NoIds} \cup {[isArray |-> TRUE, items |-> q] :
                              q \in {<<>>, <<IdItem>>, <<NonStringItem>>}}
ToolArgs == [video : {Undef, "v1"}, video_id : {Undef, "v1", BlankText},
             ids : IdsValues]
RequestNames ==
    {toolRegistry[i] : i \in DOMAIN toolRegistry}
    \cup {UnknownToolName} \cup InheritedNames
\* delete_transcript reads video_id and ids, so it is called with every
\* argument object; no other handler branches on its arguments before its
\* request, so each is called without arguments, with a video_id and with
\* a video
ArgsVideo == [video |-> "v1", video_id |-> Undef, ids |-> NoIds]
ToolRequests ==
    {[name |-> "delete_transcript", arguments |-> a] : a \in ToolArgs}
    \cup {[name |-> n, arguments |-> a] :
             n \in RequestNames \ {"delete_transcript"},
             a \in {NoArgs, ArgsVideoId, ArgsVideo}}

\* delete_transcript: the string items of args.ids, the trimmed video_id
StringIds(a) ==
    IF a.ids.isArray THEN SelectSeq(a.ids.items, LAMBDA x : x.str) ELSE <<>>
VideoIdOf(a) == IF a.video_id = Undef THEN EmptyText ELSE Trim(a.video_id)
\* a lookup whose every answer counts as a transcript
HasIdAlways(v) == TRUE
\* transcript && typeof transcript.id === 'string' && transcript.id
HasId(v) == v = JObj(TranscriptText)
ProvideIds == PlainError("Provide ids or video_id to delete transcripts.", "")

\* the downstream requests of the tools: path and, for bulk-delete, ids
Request(path) == [path |-> path, ids |-> <<>>]
LookupRequest == Request("/api/v1/transcripts/:video_id")
DeleteRequest(ids) == [path |-> "/api/v1/transcripts/bulk-delete", ids |-> ids]

\* a tool's handler up to its first await: the downstream requests it
\* issues, or the error it throws before issuing any
HandlerStart(name, a) ==
    CASE name = "get_stats" ->
           [threw |-> FALSE, err |-> NoError, stage |-> "stats",
            down |-> {"credits", "history"},
            sent |-> <<Request("credits"), Request("history")>>]
      [] name = "delete_transcript" /\ StringIds(a) # <<>> ->
           [threw |-> FALSE, err |-> NoError, stage |-> "delete",
            down |-> {"req"}, sent |-> <<DeleteRequest(StringIds(a))>>]
      [] name = "delete_transcript" /\ StringIds(a) = <<>>
           /\ VideoIdOf(a) # EmptyText ->
           [threw |-> FALSE, err |-> NoError, stage |-> "resolve",
            down |-> {"req"}, sent |-> <<LookupRequest>>]
      [] name = "delete_transcript" /\ StringIds(a) = <<>>
           /\ VideoIdOf(a) = EmptyText ->
           [threw |-> TRUE, err |-> ProvideIds, stage |-> "none", down |-> {},
            sent |-> <<>>]
      [] OTHER ->
           [threw |-> FALSE, err |-> NoError, stage |-> "single",
            down |-> {"req"}, sent |-> <<Request(name)>>]

\* a callTool that invokes the handler again
HandlerCallsTwice(looked) == 2
\* callTool: return tool.handler(args, config), once for a registered tool
HandlerCalls(looked) == IF looked = "ran" THEN 1 ELSE 0

\* a catch clause that lets everything but an HttpError through
CatchesHttpOnly(err) == err.class = "HttpError"
\* the catch clause of the CallTool handler takes whatever was thrown
Catches(err) == TRUE

\* the CallTool handler returns for a request that had n envelopes so far:
\* from its try with the handler's value, or from its catch with the error
Return(r, n) ==
    /\ result' = r
    /\ IF ~r.threw
       THEN /\ envelope' = SuccessEnvelope(r.val)
            /\ envelopes' = n + 1
            /\ escaped' = FALSE
       ELSE IF Catches(r.err)
       THEN /\ envelope' = FailureEnvelope(r.err)
            /\ envelopes' = n + 1
            /\ escaped' = FALSE
       ELSE /\ envelope' = NoEnvelope
            /\ envelopes' = n
            /\ escaped' = TRUE

\* A tools/call request enters the CallTool handler: callTool looks the
\* name up and invokes the handler, which runs up to its first await
CallToolRequest(name, a) ==
    /\ inv.state # "running"
    /\ down = {}
    /\ LET looked == callTool(name, a)
           h == HandlerStart(name, a)
           req == [state |-> "done", name |-> name, arguments |-> a,
                   stage |-> "none"]
       IN /\ invoked' = HandlerCalls(looked)
          /\ CASE looked = "unknown" ->
                 /\ Return(Thrown(PlainError("Unknown tool", name)), 0)
                 /\ inv' = req
                 /\ sent' = <<>>
                 /\ UNCHANGED down
            [] looked = "not_a_function" ->
                 /\ Return(Thrown(PlainError("tool.handler is not a function",
                                              "")), 0)
                 /\ inv' = req
                 /\ sent' = <<>>
                 /\ UNCHANGED down
            [] looked = "ran" /\ h.threw ->
                 /\ Return(Thrown(h.err), 0)
                 /\ inv' = req
                 /\ sent' = h.sent
                 /\ UNCHANGED down
            [] OTHER ->
                 /\ inv' = [req EXCEPT !.state = "running", !.stage = h.stage]
                 /\ down' = h.down
                 /\ sent' = h.sent
                 /\ envelope' = NoEnvelope
                 /\ envelopes' = 0
                 /\ escaped' = FALSE
                 /\ result' = NoResult
    /\ reading' = {}
    /\ late' = {}
    /\ settled' = <<>>
    /\ UNCHANGED <<registry, listed>>
    /\ UNCHANGED <<serviceVars, channelVars, writer, messageHandler, pending, sendLog,
                   handlerRuns, nextId, sink, apiVars>>

\* requestJson has settled with r and the handler resumes: the single
\* request of a tool, one of the two of get_stats (Promise.all), the
\* lookup of delete_transcript by video id, or its bulk-delete
Resume(label, r) ==
    /\ settled' = IF inv.state = "running" THEN Append(settled, r) ELSE settled
    /\ IF inv.state # "running"
       THEN /\ down' = down \ {label}
            /\ UNCHANGED <<inv, envelope, envelopes, escaped, result, sent>>
       ELSE IF r.threw
       THEN /\ down' = down \ {label}
            /\ inv' = [inv EXCEPT !.state = "done"]
            /\ Return(r, envelopes)
            /\ UNCHANGED sent
       ELSE IF inv.stage = "stats"
       THEN /\ down' = down \ {label}
            /\ UNCHANGED sent
            /\ IF down \ {label} = {}
               THEN /\ inv' = [inv EXCEPT !.state = "done"]
                    /\ Return(Returned(JObj("stats")), envelopes)
               ELSE UNCHANGED <<inv, envelope, envelopes, escaped, result>>
       ELSE IF inv.stage = "resolve"
       THEN IF HasId(r.val)
            THEN /\ inv' = [inv EXCEPT !.stage = "delete"]
                 /\ sent' = Append(sent, DeleteRequest(<<IdItem>>))
                 /\ UNCHANGED <<down, envelope, envelopes, escaped, result>>
            ELSE /\ down' = down \ {label}
                 /\ inv' = [inv EXCEPT !.state = "done"]
                 /\ Return(Thrown(ProvideIds), envelopes)
                 /\ UNCHANGED sent
       ELSE /\ down' = down \ {label}
            /\ inv' = [inv EXCEPT !.state = "done"]
            /\ Return(r, envelopes)
            /\ UNCHANGED sent

\* the requests whose response has arrived and whose body is being read
Reading == {x.label : x \in reading}

\* The fetch of a downstream request settles.  With a response the abort
\* timer is cleared (finally) and requestJson goes on to read the body;
\* the abort of the timer or a network failure rejects requestJson
FetchSettles(label, fo) ==
    /\ label \in down
    /\ label \notin Reading
    /\ IF fo.kind = "response"
       THEN /\ reading' = reading \cup {[label |-> label, fo |-> fo]}
            /\ UNCHANGED <<down, inv, envelope, envelopes, escaped, result,
                           sent, settled>>
       ELSE /\ Resume(label, requestJson(fo))
            /\ UNCHANGED reading
    /\ UNCHANGED <<registry, invoked, listed, late>>
    /\ UNCHANGED <<serviceVars, channelVars, writer, messageHandler, pending, sendLog,
                   handlerRuns, nextId, sink, apiVars>>

\* readBodyTextSafe returns and requestJson settles
BodyRead(label) ==
    /\ \E x \in reading :
          /\ x.label = label
          /\ reading' = reading \ {x}
          /\ Resume(label, requestJson(x.fo))
    /\ UNCHANGED <<registry, invoked, listed, late>>
    /\ UNCHANGED <<serviceVars, channelVars, writer, messageHandler, pending, sendLog,
                   handlerRuns, nextId, sink, apiVars>>

\* timeoutMs pass since the request was issued while its body is still
\* being read: the timer was cleared when the response arrived, so nothing
\* is aborted and the read goes on
BudgetElapses(label) ==
    /\ label \in Reading
    /\ label \notin late
    /\ late' = late \cup {label}
    /\ UNCHANGED <<registry, inv, down, envelope, envelopes, escaped, invoked,
                   result, listed, reading, sent, settled>>
    /\ UNCHANGED <<serviceVars, channelVars, writer, messageHandler, pending, sendLog,
                   handlerRuns, nextId, sink, apiVars>>

DispatchLabels == {"req", "credits", "history"}
DispatchNext ==
    \/ ListTools
    \/ \E req \in ToolRequests : CallToolRequest(req.name, req.arguments)
    \/ \E label \in DispatchLabels, fo \in FetchOutcomes : FetchSettles(label, fo)
    \/ \E label \in DispatchLabels : BodyRead(label)
    \/ \E label \in DispatchLabels : BudgetElapses(label)

DispatchSpec == Init /\ [][DispatchNext]_vars

\* ------------------------------------------------------- fetchWithRetry
\* the loop is left: throw lastError || new Error('Request failed after retries')
FinalThrow(e) == ThrownError(IF e = NullError THEN ExhaustedError ELSE e)

\* fetchWithRetry(url, init, options) up to its first await: the loop is
\* entered and the first fetch issued, or the loop body never runs
FetchWithRetry(opt) ==
    /\ retryPc \in {"idle", "returned", "thrown"}
    /\ maxRetries' = MaxRetriesOf(opt)
    /\ attempt' = 1
    /\ lastError' = NullError
    /\ fetched' = <<>>
    /\ delays' = <<>>
    /\ IF LoopContinues(1, MaxRetriesOf(opt))
       THEN /\ retryPc' = "fetching"
            /\ retryOutcome' = NoRetryOutcome
       ELSE /\ retryPc' = "thrown"
            /\ retryOutcome' = FinalThrow(NullError)
    /\ UNCHANGED <<sessionVars, statelessVars, storeVars>>

\* the awaited fetchWithTimeout of the current attempt settles with o: the
\* response is returned; or lastError is set and the call throws on an
\* abort, sleeps before the next attempt, or leaves the loop
AttemptSettles(o) ==
    /\ retryPc = "fetching"
    /\ fetched' = Append(fetched, o)
    /\ IF ReturnsResponse(o)
       THEN /\ retryPc' = "returned"
            /\ retryOutcome' = ReturnedResponse(o.status)
            /\ UNCHANGED <<attempt, lastError, delays>>
       ELSE /\ lastError' = ErrorOf(o)
            /\ IF IsAbort(o)
               THEN /\ retryPc' = "thrown"
                    /\ retryOutcome' = ThrownError(TimeoutError)
                    /\ UNCHANGED <<attempt, delays>>
               ELSE IF attempt < maxRetries
               THEN /\ retryPc' = "waiting"
                    /\ delays' = Append(delays, Delay(attempt))
                    /\ UNCHANGED <<attempt, retryOutcome>>
               ELSE /\ attempt' = attempt + 1
                    /\ UNCHANGED delays
                    /\ IF LoopContinues(attempt + 1, maxRetries)
                       THEN /\ retryPc' = "fetching"
                            /\ UNCHANGED retryOutcome
                       ELSE /\ retryPc' = "thrown"
                            /\ retryOutcome' = FinalThrow(ErrorOf(o))
    /\ UNCHANGED maxRetries
    /\ UNCHANGED <<sessionVars, statelessVars, storeVars>>

\* the backoff timer fires: attempt++, the loop test, the next fetch
BackoffElapses ==
    /\ retryPc = "waiting"
    /\ attempt' = attempt + 1
    /\ IF LoopContinues(attempt + 1, maxRetries)
       THEN /\ retryPc' = "fetching"
            /\ UNCHANGED retryOutcome
       ELSE /\ retryPc' = "thrown"
            /\ retryOutcome' = FinalThrow(lastError)
    /\ UNCHANGED <<maxRetries, lastError, fetched, delays>>
    /\ UNCHANGED <<sessionVars, statelessVars, storeVars>>

RetryNext ==
    \/ \E opt \in RetryOptions : FetchWithRetry(opt)
    \/ \E o \in AttemptOutcomes : AttemptSettles(o)
    \/ BackoffElapses

RetrySpec == Init /\ [][RetryNext]_vars

\* fetchWithTimeout settles every fetch by its timeout at the latest, and
\* a timer that was set fires
FairRetrySpec ==
    /\ Init /\ [][RetryNext]_vars
    /\ WF_vars(\E o \in AttemptOutcomes : AttemptSettles(o))
    /\ WF_vars(BackoffElapses)

\* --------------------------------------------- stateless HTTP requests
\* A request reaches the HTTP server, which enters the handler with it
Arrive(r, q) ==
    /\ stage[r] = "free"
    /\ \A x \in RequestIds : x < r => stage[x] # "free"
    /\ nodeReq' = [nodeReq EXCEPT ![r] = q]
    /\ stage' = [stage EXCEPT ![r] = "received"]
    /\ UNCHANGED <<apiKey, servers, nodeRes, closes, downstreamKeys>>
    /\ UNCHANGED <<sessionVars, retryVars, storeVars>>

\* The handler up to its first await: without a key it answers 401 and
\* returns; otherwise it builds the config around the key, creates the
\* MCP server and the transport, and connects them
Resolve(r) ==
    /\ stage[r] = "received"
    /\ LET k == getApiKeyFromRequest(nodeReq[r])
       IN IF k = NoKey
          THEN /\ nodeRes' = [nodeRes EXCEPT ![r] = Append(@, 401)]
               /\ stage' = [stage EXCEPT ![r] = "done"]
               /\ UNCHANGED <<apiKey, servers>>
          ELSE /\ apiKey' = [apiKey EXCEPT ![r] = k]
               /\ servers' = [servers EXCEPT ![r] = @ + 1]
               /\ stage' = [stage EXCEPT ![r] = "connected"]
               /\ UNCHANGED nodeRes
    /\ nodeReq' = [nodeReq EXCEPT ![r] = NoNodeReq]
    /\ UNCHANGED <<closes, downstreamKeys>>
    /\ UNCHANGED <<sessionVars, retryVars, storeVars>>

\* how the body of the request is collected: GET and HEAD carry none, the
\* chunks of another method are read, or the stream fails under the read
BodyReads == {"none", "read", "failed"}
\* After connect: the body is collected and transport.handleRequest is
\* called.  The read stands outside the try: its failure rejects the
\* handler's promise, and neither a response nor the finally block follows
ReadBody(r, b) ==
    /\ stage[r] = "connected"
    /\ stage' = [stage EXCEPT ![r] = IF b = "failed" THEN "rejected" ELSE "handling"]
    /\ UNCHANGED <<nodeReq, apiKey, servers, nodeRes, closes, downstreamKeys>>
    /\ UNCHANGED <<sessionVars, retryVars, storeVars>>

\* a config kept in one place for all requests: the key of the request
\* whose server was created last
ConfigKeyShared(r) ==
    LET live == {x \in RequestIds : apiKey[x] # NoKey}
    IN apiKey[CHOOSE x \in live : \A y \in live : y <= x]
\* the config createMcpServer(config) closes over: the handlers of the
\* request's server are called with it, and authHeaders takes its apiKey
ConfigKey(r) == apiKey[r]
\* While handleRequest runs, a tool of the request's server calls the
\* downstream service with the key of its config
DownstreamCall(r) ==
    /\ stage[r] = "handling"
    /\ ConfigKey(r) \notin downstreamKeys[r]
    /\ downstreamKeys' = [downstreamKeys EXCEPT ![r] = @ \cup {ConfigKey(r)}]
    /\ UNCHANGED <<nodeReq, stage, apiKey, servers, nodeRes, closes>>
    /\ UNCHANGED <<sessionVars, retryVars, storeVars>>

\* how the try block ends: the transport's response is written, 404 stands
\* in for a missing response, handleRequest throws before anything is
\* written, or the stream of the response fails after writeHead
HandleOutcomes == {"response", "missing", "throws", "stream_fails"}
\* the try and its catch: the statuses written to the response.  After
\* writeHead the 500 of the catch cannot be written any more
Respond(r, o) ==
    /\ stage[r] = "handling"
    /\ nodeRes' = [nodeRes EXCEPT ![r] =
          Append(@, CASE o = "missing" -> 404
                      [] o = "throws" -> 500
                      [] OTHER -> 200)]
    /\ stage' = [stage EXCEPT ![r] = "responded"]
    /\ UNCHANGED <<nodeReq, apiKey, servers, closes, downstreamKeys>>
    /\ UNCHANGED <<sessionVars, retryVars, storeVars>>

\* finally { await server.close() }
Finally(r) ==
    /\ stage[r] = "responded"
    /\ closes' = [closes EXCEPT ![r] = @ + 1]
    /\ stage' = [stage EXCEPT ![r] = "done"]
    /\ UNCHANGED <<nodeReq, apiKey, servers, nodeRes, downstreamKeys>>
    /\ UNCHANGED <<sessionVars, retryVars, storeVars>>

StatelessNext ==
    \/ \E r \in RequestIds, q \in NodeReqs : Arrive(r, q)
    \/ \E r \in RequestIds : Resolve(r)
    \/ \E r \in RequestIds, b \in BodyReads : ReadBody(r, b)
    \/ \E r \in RequestIds : DownstreamCall(r)
    \/ \E r \in RequestIds, o \in HandleOutcomes : Respond(r, o)
    \/ \E r \in RequestIds : Finally(r)

StatelessSpec == Init /\ [][StatelessNext]_vars

\* ------------------------------------------- store-backed tools (server.ts)
\* Each action is a tool call on the server created for user u.  A query
\* that fails yields no rows, like one that matches none
DefaultListLimit == 10
DefaultSearchLimit == 20
NoRows(u) == Access(u, {}, {}, {})
Reads(u, S) == Access(u, OwnersOf(S), OwnersOf(S), {})

\* list_transcripts({ limit = 10, offset = 0 })
ListTranscripts(u, limit, offset) ==
    /\ LET page == Range(Desc(Owned(u)), offset, offset + limit - 1)
       IN /\ access' = Reads(u, ToSet(page))
          /\ reply' = Reply("rows", page)
    /\ UNCHANGED <<rows, nextRow, creating>>
    /\ UNCHANGED <<sessionVars, retryVars, statelessVars>>

\* the rows a lookup by id or by video_id yields from the base query S
Pick(S, id, v) == IF id # NoRowId THEN ById(S, id) ELSE ByVideo(S, v)

\* get_transcript({ id, video_id })
GetTranscript(u, id, v) ==
    /\ access' = IF id = NoRowId /\ v = NoVideo
                 THEN NoRows(u)
                 ELSE Reads(u, Pick(Owned(u), id, v))
    /\ reply' = IF (id = NoRowId /\ v = NoVideo) \/ Pick(Owned(u), id, v) = {}
                THEN ErrorReply
                ELSE Reply("rows", Desc(Pick(Owned(u), id, v)))
    /\ UNCHANGED <<rows, nextRow, creating>>
    /\ UNCHANGED <<sessionVars, retryVars, statelessVars>>

\* export_transcript({ id, video_id, format })
ExportTranscript(u, id, v) ==
    /\ access' = IF id = NoRowId /\ v = NoVideo
                 THEN NoRows(u)
                 ELSE Reads(u, Pick(Succeeded(Owned(u)), id, v))
    /\ reply' = IF (id = NoRowId /\ v = NoVideo)
                   \/ Pick(Succeeded(Owned(u)), id, v) = {}
                THEN ErrorReply
                ELSE Reply("rows", Desc(Pick(Succeeded(Owned(u)), id, v)))
    /\ UNCHANGED <<rows, nextRow, creating>>
    /\ UNCHANGED <<sessionVars, retryVars, statelessVars>>

\* search_transcripts({ query, limit = 20 }): the limit * 2 most recent
\* succeeded rows of the user are fetched, filtered, and cut to limit
SearchTerms == {"", "v1", "cap"}
SearchLimits == {1, DefaultSearchLimit}
SearchTranscripts(u, term, limit) ==
    /\ LET transcripts == Limit(Desc(Succeeded(Owned(u))), limit * 2)
           matches == Limit(SelectSeq(transcripts, LAMBDA i : Matches(i, term)),
                            limit)
       IN /\ access' = IF term = ""
                       THEN NoRows(u)
                       ELSE Access(u, OwnersOf(ToSet(transcripts)),
                                   OwnersOf(ToSet(matches)), {})
          /\ reply' = IF term = "" THEN ErrorReply ELSE Reply("rows", matches)
    /\ UNCHANGED <<rows, nextRow, creating>>
    /\ UNCHANGED <<sessionVars, retryVars, statelessVars>>

\* delete_transcript({ id, video_id }): the id given, else the most recent
\* row of the video; the delete filters by id and user_id
DeleteTranscript(u, id, v) ==
    /\ LET found == IF id # NoRowId THEN {} ELSE MaybeSingle(ByVideo(Owned(u), v))
           target == IF id # NoRowId THEN id
                     ELSE IF found = {} THEN NoRowId
                     ELSE CHOOSE i \in found : TRUE
           gone == DeleteFilter(u, target)
       IN IF (id = NoRowId /\ v = NoVideo) \/ target = NoRowId
          THEN /\ access' = NoRows(u)
               /\ reply' = ErrorReply
               /\ UNCHANGED rows
          ELSE /\ access' = Access(u, OwnersOf(found), {}, OwnersOf(gone))
               /\ reply' = Reply("deleted", <<target>>)
               /\ rows' = [i \in RowIds |-> IF i \in gone THEN NoRow ELSE rows[i]]
    /\ UNCHANGED <<nextRow, creating>>
    /\ UNCHANGED <<sessionVars, retryVars, statelessVars>>

\* get_account_usage(): the users row whose id is the user's
GetAccountUsage(u) ==
    /\ access' = Access(u, {u}, {u}, {})
    /\ reply' = Reply("usage", <<>>)
    /\ UNCHANGED <<rows, nextRow, creating>>
    /\ UNCHANGED <<sessionVars, retryVars, statelessVars>>

\* create_transcript({ video_url, language }) up to the check for an
\* existing transcript: an invalid url ends the call; a succeeded row with
\* text ends it with 'already exists'; otherwise the call goes on
CreateCheck(u, v, hasLanguage) ==
    /\ creating[u].stage = "idle"
    /\ IF v = NoVideo
       THEN /\ access' = NoRows(u)
            /\ reply' = ErrorReply
            /\ UNCHANGED creating
       ELSE LET same == {i \in Owned(u) : rows[i].video_id = v}
                existing == MaybeSingle(same)
                exists == \E i \in existing :
                             rows[i].status = "succeeded" /\ rows[i].text # ""
                prefs == IF hasLanguage THEN {} ELSE getUserPreferredLanguage(u)
            IN /\ access' = Access(u, prefs \cup OwnersOf(existing),
                                   IF exists THEN OwnersOf(existing) ELSE {}, {})
               /\ reply' = IF exists THEN Reply("exists", Desc(existing))
                            ELSE NoReply
               /\ creating' = IF exists THEN creating
                              ELSE [creating EXCEPT ![u] =
                                      [stage |-> "checked", video |-> v,
                                       id |-> NoRowId]]
    /\ UNCHANGED <<rows, nextRow>>
    /\ UNCHANGED <<sessionVars, retryVars, statelessVars>>

\* create_transcript: getVideoTitle, then the insert of the processing row
CreateInsert(u, ok) ==
    /\ creating[u].stage = "checked"
    /\ nextRow < MaxRows
    /\ IF ok
       THEN /\ rows' = [rows EXCEPT ![nextRow + 1] =
                           Row(u, creating[u].video, "processing", "")]
            /\ nextRow' = nextRow + 1
            /\ creating' = [creating EXCEPT ![u].stage = "inserted",
                                            ![u].id = nextRow + 1]
            /\ access' = Access(u, {}, {}, {u})
            /\ reply' = NoReply
       ELSE /\ creating' = [creating EXCEPT ![u] = NotCreating]
            /\ access' = NoRows(u)
            /\ reply' = ErrorReply
            /\ UNCHANGED <<rows, nextRow>>
    /\ UNCHANGED <<sessionVars, retryVars, statelessVars>>

\* how fetchCaptionsWithRetry ends: captions with text, captions whose text
\* is empty, or a failure
Captions == {"cap", "", "fails"}
\* create_transcript after the insert: the captions are fetched and the row
\* is updated to succeeded; when that fails, to failed.  The result of the
\* second update is not looked at
CreateFinish(u, captions, updateOk, markOk) ==
    /\ creating[u].stage = "inserted"
    /\ LET hit == UpdateFilter(creating[u].id)
           success == captions # "fails" /\ updateOk
           changed == IF success \/ markOk THEN hit ELSE {}
       IN /\ rows' = [i \in RowIds |->
                        IF i \notin changed THEN rows[i]
                        ELSE IF success
                        THEN [rows[i] EXCEPT !.status = "succeeded",
                                             !.text = captions]
                        ELSE [rows[i] EXCEPT !.status = "failed"]]
          /\ access' = Access(u, {}, {}, OwnersOf(changed))
          /\ reply' = Reply(IF success THEN "created" ELSE "failed",
                            <<creating[u].id>>)
    /\ creating' = [creating EXCEPT ![u] = NotCreating]
    /\ UNCHANGED nextRow
    /\ UNCHANGED <<sessionVars, retryVars, statelessVars>>

\* what a client can name: any uuid, of a row of its own or not, or a
\* video; when both are given the id is used
LookupArgs ==
    {[id |-> i, v |-> NoVideo] : i \in RowIds}
    \cup {[id |-> NoRowId, v |-> v] : v \in Videos \cup {UnknownVideo, NoVideo}}
    \cup {[id |-> i, v |-> v] : i \in {MaxRows}, v \in Videos}
StoreNext ==
    \E u \in StoreUsers :
        \/ \E limit \in {1, DefaultListLimit}, offset \in {0, 1} :
              ListTranscripts(u, limit, offset)
        \/ \E a \in LookupArgs : GetTranscript(u, a.id, a.v)
        \/ \E a \in LookupArgs : ExportTranscript(u, a.id, a.v)
        \/ \E term \in SearchTerms, limit \in SearchLimits :
              SearchTranscripts(u, term, limit)
        \/ \E a \in LookupArgs : DeleteTranscript(u, a.id, a.v)
        \/ GetAccountUsage(u)
        \/ \E v \in Videos \cup {NoVideo}, hasLanguage \in BOOLEAN :
              CreateCheck(u, v, hasLanguage)
        \/ \E ok \in BOOLEAN : CreateInsert(u, ok)
        \/ \E captions \in Captions, updateOk \in BOOLEAN, markOk \in BOOLEAN :
              CreateFinish(u, captions, updateOk, markOk)

StoreSpec == Init /\ [][StoreNext]_vars

\* one user's library holding transcripts of two videos: the calls that
\* write rows, and the search over them
OtherVideo == "v2"
LibraryVideos == Videos \cup {OtherVideo}
LibraryNext ==
    \E u \in {"u1"} :
        \/ \E v \in LibraryVideos : CreateCheck(u, v, TRUE)
        \/ \E ok \in BOOLEAN : CreateInsert(u, ok)
        \/ \E captions \in Captions, updateOk \in BOOLEAN, markOk \in BOOLEAN :
              CreateFinish(u, captions, updateOk, markOk)
        \/ \E term \in SearchTerms, limit \in SearchLimits :
              SearchTranscripts(u, term, limit)
        \/ \E i \in RowIds : DeleteTranscript(u, i, NoVideo)

LibrarySpec == Init /\ [][LibraryNext]_vars

\* ------------------------------------------------------------- claims
\* the POST handler answers the request it was serving
Served == http.state = "received" /\ http'.state = "answered"
Resolves(req) == MapGet(activeTransports, req.sessionId) # NoTransport
SessionState == <<pending, channel, sendLog, calls, handlerRuns>>
Delivered(t, i) ==
    \E k \in DOMAIN channel[t] :
        /\ channel[t][k].event = "message"
        /\ channel[t][k].id = i
        /\ channel[t][k].isError = IsErrorOf(outcomeOf[i])

\* C1: a registered session id resolves to exactly the transport it was
\* registered with; a removed id and a never-issued id resolve to not-found
C1_DirectoryLifecycle ==
    \A s \in SessionIds \cup {BogusSid} :
        LET r == MapGet(activeTransports, s)
        IN /\ s \notin Issued => r = NoTransport
           /\ s \in removed => r = NoTransport
           /\ s \in Issued \ removed => r # NoTransport /\ sessionOf[r] = s
C1_Witness ==
    /\ removed # {}
    /\ \E s \in Issued \ removed : MapGet(activeTransports, s) # NoTransport

\* C2: a POST with a valid credential and a session id that does not
\* resolve is answered 404
C2_UnresolvedIs404 ==
    [][(Served /\ Authenticates(http.req.cred)
          /\ http.req.sessionId # NoSid /\ ~Resolves(http.req))
        => http'.status = 404]_vars

\* C3: a POST whose credential is absent or invalid is answered 401
C3_UnauthenticatedIs401 ==
    [][(Served /\ ~Authenticates(http.req.cred)) => http'.status = 401]_vars

\* C4: a POST with a valid credential and no sessionId is answered 400,
\* whatever its body
C4_MissingSessionIs400 ==
    [][(Served /\ Authenticates(http.req.cred) /\ http.req.sessionId = NoSid)
        => http'.status = 400]_vars

\* C5: a POST rejected at the boundary (credential missing or invalid,
\* session id missing or unresolvable) invokes no handler and writes no event
C5_RejectedTouchesNothing ==
    [][(Served /\ (~Authenticates(http.req.cred) \/ http.req.sessionId = NoSid
                     \/ ~Resolves(http.req)))
        => (http'.status # 202 /\ UNCHANGED SessionState)]_vars
C5_Witness ==
    /\ http.state = "answered"
    /\ http.status \in {401, 404}
    /\ \E t \in TransportIds : phase[t] = "live" /\ open[t] /\ channel[t] # <<>>

C7_EndpointFirst ==
    \A t \in TransportIds :
        LET evs == channel[t] \o pending[t]
        IN evs # <<>> => evs[1].event = "endpoint"
C7_Witness ==
    \E t \in TransportIds :
        /\ Len(channel[t]) >= 2
        /\ channel[t][2].event = "message"

\* C8: the channel carries the events in the order send / sendEndpoint
\* were invoked
C8_SendOrder ==
    \A t \in TransportIds : channel[t] \o pending[t] = sendLog[t]
C8_Witness ==
    \E t \in TransportIds :
        /\ Len(pending[t]) >= 2
        /\ pending[t][1].event = "message"
        /\ pending[t][2].event = "message"

\* C9: within one session at most one tool call is in flight at a time
C9_OneCallPerSession ==
    \A t \in TransportIds : Cardinality({c \in calls : c.t = t}) <= 1

\* C10: a handler is never invoked with an argument object that lacks a
\* field its inputSchema requires
C10_RequiredChecked ==
    \A c \in calls : ~MissingRequired(c.name, c.arguments)

\* the request being served is answered: callTool returned or threw
Done == inv.state = "done"
Failed == Done /\ result.threw
Block == envelope.content[1]
UnknownToolMessage(name) == [text |-> "Unknown tool", arg |-> name]

\* C11: a request naming a tool that is not registered runs no handler and
\* is answered by an isError envelope whose message is 'Unknown tool: <name>'
C11_UnknownToolNamed ==
    (Done /\ inv.name \notin ToolNames) =>
        /\ invoked = 0
        /\ envelope.isError
        /\ Block.error = UnknownToolMessage(inv.name)

\* C12: every answered tools/call request has exactly one envelope, with one
\* content block and isError set exactly when lookup, handler or downstream
\* request failed; nothing is returned while the handler runs, a request of
\* get_stats that settles after the answer adds no envelope, and no
\* exception leaves the CallTool handler
C12_OneEnvelope ==
    /\ ~escaped
    /\ inv.state = "running" => envelopes = 0
    /\ Done => /\ envelopes = 1
               /\ Len(envelope.content) = 1
               /\ envelope.isError = result.threw
               /\ envelope.hasIsError = result.threw
C12_Witness ==
    /\ Failed
    /\ inv.name = "get_stats"
    /\ down # {}
    /\ result.err.class = "HttpError"

\* C13: a failure envelope has isError and one block encoding the error's
\* message and, exactly when the failure is an HttpError with a body, its
\* details: the parsed body when it is JSON, else the body's text
C13_FailureShape ==
    Failed =>
        /\ envelope.isError
        /\ Len(envelope.content) = 1
        /\ Block.form = "json"
        /\ Block.error = result.err.message
        /\ Block.hasDetails =
              (result.err.class = "HttpError" /\ result.err.bodyText # EmptyText)
        /\ result.err.bodyText = RateLimitedText
              => Block.details = JObj(RateLimitedText)
        /\ result.err.bodyText = PlainText => Block.details = JStr(PlainText)
C13_Witness ==
    /\ Failed
    /\ result.err = HttpError("503", RateLimitedText)
    /\ Block.hasDetails

\* C14: a success envelope has one block and no isError member; the block is
\* the returned string itself, or the JSON serialization of any other value
C14_SuccessShape ==
    (Done /\ ~result.threw) =>
        /\ Len(envelope.content) = 1
        /\ ~envelope.hasIsError
        /\ Block.val = result.val
        /\ Block.form = (IF result.val.type = "string" THEN "verbatim" ELSE "json")
C14_Witness ==
    /\ Done /\ ~result.threw
    /\ result.val = JStr(PlainText)
    /\ Block.form = "verbatim"

\* C15: listTools yields the descriptor of every registered tool once, in
\* registration order, and no listTools or tools/call changes the registry
C15_ListInOrder ==
    /\ registry = toolRegistry
    /\ listed # <<>> =>
          /\ Len(listed) = Len(toolRegistry)
          /\ \A i \in DOMAIN listed : listed[i].name = toolRegistry[i]
          /\ \A i, j \in DOMAIN listed :
                listed[i].name = listed[j].name => i = j
          /\ {listed[i].name : i \in DOMAIN listed} =
                {"get_stats", "transcribe_v2", "list_transcripts",
                 "get_transcript", "delete_transcript"}
C15_Witness ==
    /\ listed # <<>>
    /\ Done
    /\ invoked = 1

\* a transport method is called in this step
Called(op) == api' # api /\ api'.op = op
\* the transport states: Ready holds the writer of an open stream
Ready(t) == writer[t] /\ sink[t] = "open"
Uninitialized(t) == sink[t] = "none"
Closed(t) == sink[t] = "closed"
TransportState == <<writer, sink, messageHandler, pending, sendLog, channel,
                    handlerRuns, releases, activeTransports>>

C17_SendOnlyWhenReady ==
    [][(Called("send") \/ Called("sendEndpoint")) =>
         IF Ready(api'.t)
         THEN /\ api'.result = "ok"
              /\ Len(sendLog'[api'.t]) = Len(sendLog[api'.t]) + 1
              /\ Len(pending'[api'.t]) = Len(pending[api'.t]) + 1
         ELSE /\ api'.result = "error"
              /\ UNCHANGED <<pending, sendLog, channel>>]_vars
C17_Witness ==
    /\ api.op \in {"send", "sendEndpoint"}
    /\ api.result = "error"
    /\ Closed(api.t)
    /\ sendLog[api.t] # <<>>

\* C18: a close() called after the sink was released, while that close is
\* in progress or after it, raises no error, releases nothing and removes
\* nothing from the directory
C18_CloseOnce ==
    [][(Called("close") /\ releases[api'.t] >= 1) =>
         /\ api'.result # "error"
         /\ UNCHANGED <<releases, sink, activeTransports, removed>>]_vars

\* C19: handlePostMessage invokes the inbound handler only when the
\* transport is Ready
C19_InboundOnlyWhenReady ==
    [][(Called("handlePostMessage") /\ ~Ready(api'.t))
         => UNCHANGED handlerRuns]_vars

\* C20: the directory holds no entry whose channel was torn down
C20_TeardownRemoves ==
    \A s \in SessionIds :
        MapGet(activeTransports, s) # NoTransport
            => open[MapGet(activeTransports, s)]

\* fetchWithRetry has returned or thrown; the attempts it may make
RetryFinished == retryPc \in {"returned", "thrown"}
RetryRunning == retryPc \in {"fetching", "waiting"}
AttemptsAllowed == IF maxRetries > 0 THEN maxRetries ELSE 0
LastFetched == fetched[Len(fetched)]
\* fetches issued by the call so far, the one in flight included
FetchesIssued == Len(fetched) + (IF retryPc = "fetching" THEN 1 ELSE 0)
Retryable(o) == o.kind = "response" /\ o.status \in retryStatusCodes
Handed(o) == o.kind = "response" /\ ~Retryable(o)

\* the counting part of C28: at most maxRetries fetches; a wait is always
\* followed by another fetch; no fetch at all for maxRetries <= 0
C28_Counts ==
    /\ FetchesIssued <= AttemptsAllowed
    /\ retryPc = "waiting" => Len(delays) = FetchesIssued /\ FetchesIssued < maxRetries
    /\ retryPc # "waiting" /\ FetchesIssued > 0 => Len(delays) < FetchesIssued
    /\ FetchesIssued = 0 => delays = <<>>
    /\ RetryFinished /\ maxRetries <= 0 =>
          fetched = <<>> /\ retryOutcome = ThrownError(ExhaustedError)

\* C28: fetchWithRetry always terminates after at most maxRetries fetch
\* attempts in total, waits only between attempts and never after the last
\* one, and with maxRetries <= 0 performs no fetch and throws 'Request
\* failed after retries'
C28_BoundedAttempts == [](C28_Counts) /\ (RetryRunning ~> RetryFinished)
C28_Witness ==
    /\ retryPc = "thrown"
    /\ maxRetries >= 2
    /\ Len(fetched) = maxRetries
    /\ Len(delays) = maxRetries - 1

\* C29: an attempt aborted by its timeout is never retried: it is the last
\* fetch of the call, which fails at once with 'Request timeout after
\* <timeoutMs>ms' whatever attempts remain
C29_TimeoutNotRetried ==
    \A i \in DOMAIN fetched :
        fetched[i].kind = "abort" =>
            /\ i = Len(fetched)
            /\ retryPc = "thrown"
            /\ retryOutcome = ThrownError(TimeoutError)
C29_Witness ==
    /\ fetched # <<>>
    /\ LastFetched.kind = "abort"
    /\ Len(fetched) < maxRetries

\* C30: a response is returned only when it is ok or its status is outside
\* {429, 500, 502, 503, 504}, and from the attempt that produced it with no
\* further attempt; a response with a retryable status is never returned;
\* when every attempt ends with a retryable status or a network error the
\* call throws the error of the last attempt
C30_ReturnsOrThrowsLast ==
    /\ retryOutcome.kind = "response" =>
          /\ fetched # <<>>
          /\ LastFetched = [kind |-> "response", status |-> retryOutcome.status]
          /\ StatusOk(retryOutcome.status)
                \/ retryOutcome.status \notin {429, 500, 502, 503, 504}
    /\ \A i \in DOMAIN fetched :
          Handed(fetched[i]) =>
              /\ i = Len(fetched)
              /\ retryOutcome = ReturnedResponse(fetched[i].status)
    /\ (/\ RetryFinished
        /\ fetched # <<>>
        /\ \A i \in DOMAIN fetched :
              Retryable(fetched[i]) \/ fetched[i].kind = "network")
       => retryOutcome = ThrownError(ErrorOf(LastFetched))
C30_Witness ==
    /\ retryPc = "thrown"
    /\ Len(fetched) >= 2
    /\ Retryable(fetched[1])
    /\ LastFetched.kind = "network"
    /\ retryOutcome = ThrownError(NetworkError)

\* the tool call with JSON-RPC id i ends in this step, and how
Ends(i) == outcomeOf[i] = "none" /\ outcomeOf'[i] # "none"
Fails(i) == Ends(i) /\ outcomeOf'[i] # "ok"

\* C24: a failed tool call leaves the channel intact: the step in which a
\* handler fails changes neither the state of any transport nor the
\* directory, and the error envelope is written to the session's transport
\* by the same send as a success, behind the writes already made
C24_FailureKeepsChannel ==
    [][\A i \in 1..MaxMsgs :
          /\ Fails(i) =>
                /\ UNCHANGED <<writer, sink, messageHandler, activeTransports,
                               removed, open, phase>>
                /\ Ready(accepted[i]) =>
                      /\ Ready(accepted[i])'
                      /\ sendLog'[accepted[i]] =
                            Append(sendLog[accepted[i]], MessageEvent(i, TRUE))
                      /\ pending'[accepted[i]] =
                            Enqueue(pending[accepted[i]], MessageEvent(i, TRUE))
          /\ (Ends(i) /\ ~Fails(i) /\ Ready(accepted[i])) =>
                sendLog'[accepted[i]] =
                    Append(sendLog[accepted[i]], MessageEvent(i, FALSE))]_vars
\* a second tool call is accepted on the session whose first call failed
C24_Witness ==
    /\ outcomeOf[1] \in {"http_error", "timeout"}
    /\ accepted[1] # NoTransport
    /\ Ready(accepted[1])
    /\ MapGet(activeTransports, sessionOf[accepted[1]]) = accepted[1]
    /\ accepted[2] = accepted[1]

\* C27: a message handed to a transport that has no inbound handler yet is
\* dropped: handlePostMessage resolves without an error, so the POST goes on
\* to its 202, nothing is queued or written, and a handler runs for a
\* message only in the step that hands that message over, never later
C27_DroppedBeforeHandler ==
    [][/\ (Called("handlePostMessage") /\ ~messageHandler[api'.t]) =>
             /\ api'.result = "ok"
             /\ UNCHANGED <<handlerRuns, pending, sendLog, channel, calls>>
       /\ \A i \in 1..MaxMsgs :
             handlerRuns'[i] # handlerRuns[i] =>
                 /\ Called("handlePostMessage")
                 /\ nextId = i - 1
                 /\ nextId' = i]_vars
\* the first message was dropped and a handler was installed afterwards
C27_Witness ==
    /\ api.op = "onmessage"
    /\ messageHandler[api.t]
    /\ nextId >= 1
    /\ handlerRuns[1] = 0

\* the handler of request r leaves its first stretch in this step
Resolved(r) == stage[r] = "received" /\ stage'[r] # "received"
\* the first key present in the order the three sources are documented in
FirstPresent(q) ==
    IF Truthy(q.xApiToken) THEN q.xApiToken
    ELSE IF BearerMatch(q.authorization).present
    THEN BearerMatch(q.authorization)
    ELSE IF Truthy(q.key) THEN q.key
    ELSE NoHeader

\* C26: the key of a stateless request is the first one present among the
\* x-api-token header, a well-formed Authorization: Bearer header and the
\* ?key= parameter; a request none of them yields a key for is answered 401
\* and gets no MCP server or transport
C26_CredentialOrder ==
    [][\A r \in RequestIds :
          /\ Resolved(r) =>
                IF FirstPresent(nodeReq[r]).present
                THEN /\ apiKey'[r] = FirstPresent(nodeReq[r]).value
                     /\ servers'[r] = 1
                     /\ nodeRes'[r] = <<>>
                ELSE /\ nodeRes'[r] = <<401>>
                     /\ servers'[r] = 0
                     /\ stage'[r] = "done"
                     /\ apiKey'[r] = NoKey
          /\ servers'[r] # servers[r] => Resolved(r)]_vars
\* a request with a Bearer token and a ?key= was served under the token
C26_Witness ==
    \E r \in RequestIds :
        /\ apiKey[r] = "kb"
        /\ servers[r] = 1
        /\ \E x \in RequestIds : nodeRes[x] = <<401>> /\ servers[x] = 0

\* the delete_transcript request being served, its lookup, its deletes
Deleting == inv.name = "delete_transcript" /\ inv.state # "idle"
Deletes == {i \in DOMAIN sent : sent[i].path = DeleteRequest(<<>>).path}
LookedUp == sent # <<>> /\ sent[1] = LookupRequest
AbortedError == PlainError("This operation was aborted", "")

\* C21: a downstream call that outlasts its timeout budget is aborted and
\* answered by an isError envelope carrying the abort
C21_OverBudgetAborted ==
    (Done /\ late # {}) =>
        /\ envelope.isError
        /\ result = Thrown(AbortedError)

\* C22: the core never retries: the handler of the named tool is invoked at
\* most once per tools/call request, also when the invocation fails, every
\* downstream request is issued once, and one envelope answers the request
C22_NoRetry ==
    /\ invoked <= 1
    /\ inv.state = "running" => invoked = 1 /\ envelopes = 0
    /\ Done => envelopes = 1
    /\ Failed => Len(settled) <= Len(sent)
    /\ \A i, j \in DOMAIN sent : sent[i] = sent[j] => i = j
C22_Witness ==
    /\ Failed
    /\ inv.name = "transcribe_v2"
    /\ invoked = 1
    /\ envelopes = 1
    /\ result = Thrown(AbortedError)
    /\ sent = <<Request("transcribe_v2")>>

\* C23 as stated: no bulk-delete with an empty id list; without string ids
\* and without a video_id that resolves to a transcript id the call fails
\* with the 'Provide ids or video_id' error and sends no delete; with string
\* ids no lookup is made
C23_DeleteNeedsIds ==
    Deleting =>
        /\ \A i \in Deletes : sent[i].ids # <<>>
        /\ (Done /\ Deletes = {}) => result = Thrown(ProvideIds)
        /\ StringIds(inv.arguments) # <<>> => ~LookedUp

\* C23, amended: as above, except that a lookup that itself fails ends the
\* call with the lookup's error; 'Provide ids or video_id' is the failure
\* when no lookup is made or the lookup answers without a transcript id
C23_DeleteNeedsIdsOrLookupError ==
    Deleting =>
        /\ \A i \in Deletes : sent[i].ids # <<>>
        /\ (Done /\ Deletes = {}) =>
              IF LookedUp /\ settled[1].threw
              THEN result = settled[1]
              ELSE result = Thrown(ProvideIds)
        /\ (LookedUp /\ settled # <<>> /\ ~settled[1].threw
            /\ settled[1].val # JObj(TranscriptText)) =>
              Done /\ Deletes = {} /\ result = Thrown(ProvideIds)
        /\ StringIds(inv.arguments) # <<>> => ~LookedUp
\* the lookup answered without a transcript id and nothing was deleted
C23_Witness ==
    /\ Deleting /\ Done
    /\ sent = <<LookupRequest>>
    /\ settled = <<Returned(JObj(NoIdText))>>
    /\ result = Thrown(ProvideIds)

\* C25: whatever the servers of the users do in whatever order, a tool call
\* on the server created for user U reads, returns, updates and deletes
\* only rows whose user_id is U
C25_TenantScoped ==
    access.read \cup access.returned \cup access.wrote \subseteq {access.by}
\* a user's call has just changed a row of its own, the only one it has,
\* in a table that holds a succeeded transcript of another user
C25_Witness ==
    /\ access.by = "u1"
    /\ access.wrote = {"u1"}
    /\ \E i \in Present : rows[i].user_id = "u2" /\ rows[i].status = "succeeded"
    /\ Cardinality(Owned("u1")) <= 1

\* the succeeded rows of user u whose title or text contains the term, most
\* recent first
MatchesOf(u, term) == Desc({i \in Succeeded(Owned(u)) : Matches(i, term)})
Searched(u, term, limit) == term # "" /\ SearchTranscripts(u, term, limit)

\* C31: search_transcripts returns the user's succeeded transcripts whose
\* title or text contains the query, most recent first, cut to limit: every
\* match appears up to limit and every returned transcript matches
C31_SearchReturnsMatches ==
    [][\A u \in StoreUsers, term \in SearchTerms, limit \in SearchLimits :
          Searched(u, term, limit) =>
              /\ reply'.kind = "rows"
              /\ reply'.ids = Limit(MatchesOf(u, term), limit)]_vars

\* the succeeded transcripts with text that user u has of video v
TranscriptsOf(u, v) ==
    {i \in Succeeded(Owned(u)) : rows[i].video_id = v /\ rows[i].text # ""}

\* C32: a create_transcript call for a video of which the calling user has a
\* succeeded transcript with text returns 'already exists' with that
\* transcript's id and ends there: no row is inserted, no captions fetched
C32_CreateIdempotent ==
    [][\A u \in StoreUsers, v \in LibraryVideos, hasLanguage \in BOOLEAN :
          (CreateCheck(u, v, hasLanguage) /\ TranscriptsOf(u, v) # {}) =>
              /\ reply'.kind = "exists"
              /\ ToSet(reply'.ids) \subseteq TranscriptsOf(u, v)
              /\ creating'[u].stage = "idle"
              /\ rows' = rows]_vars

\* a create_transcript call of user u inserts its record, and returns after
\* having inserted one
Inserts(u) == creating[u].stage = "checked" /\ creating'[u].stage = "inserted"
Returns(u) == creating[u].stage = "inserted" /\ creating'[u].stage = "idle"
Final == {"succeeded", "failed"}

\* C39: a record create_transcript inserts starts as 'processing'; when the
\* call returns the record (unless deleted meanwhile) is 'succeeded', exactly
\* when the call reports success, or 'failed', never 'processing'; and no
\* record goes from 'succeeded' or 'failed' back to 'processing'
C39_RecordStateMachine ==
    [][/\ \A u \in StoreUsers :
            /\ Inserts(u) => rows'[creating'[u].id].status = "processing"
            /\ Returns(u) =>
                  LET record == rows'[creating[u].id]
                  IN record.status # "absent" =>
                        /\ record.status \in Final
                        /\ record.status = "succeeded" <=> reply'.kind = "created"
       /\ \A i \in RowIds :
            rows[i].status \in Final => rows'[i].status # "processing"]_vars

\* C34: a request's key is the one it presented, fixed when the request is
\* resolved and never changed afterwards, whatever other requests do; every
\* downstream call made while the request is handled carries that key and
\* no other
C34_KeyIsolation ==
    [][\A r \in RequestIds :
          /\ apiKey'[r] # apiKey[r] =>
                Resolved(r) /\ apiKey'[r] = FirstPresent(nodeReq[r]).value
          /\ downstreamKeys'[r] \subseteq {apiKey[r]}
          /\ downstreamKeys'[r] # downstreamKeys[r] => stage[r] = "handling"]_vars
\* two requests with different keys were in flight together and each made
\* its downstream call
C34_Witness ==
    \E r, x \in RequestIds :
        /\ apiKey[r] # apiKey[x]
        /\ downstreamKeys[r] = {apiKey[r]}
        /\ downstreamKeys[x] = {apiKey[x]}
        /\ stage[r] = "handling"
        /\ stage[x] = "handling"

\* the handler of request r has ended: it returned, or its promise rejected
HandlerOver(r) == stage[r] \in {"done", "rejected"}

\* C38: a stateless request that presents a key gets one MCP server (and
\* transport) of its own, at most one response while it is served, and once
\* its handler has ended exactly one response and exactly one close of its
\* server, the close following the response; also when handling fails or
\* the body cannot be read
C38_StatelessLifecycle ==
    \A r \in RequestIds :
        /\ servers[r] <= 1
        /\ closes[r] <= servers[r]
        /\ Len(nodeRes[r]) <= 1
        /\ closes[r] = 1 => Len(nodeRes[r]) = 1
        /\ apiKey[r] # NoKey => servers[r] = 1
        /\ (HandlerOver(r) /\ apiKey[r] # NoKey) =>
              Len(nodeRes[r]) = 1 /\ closes[r] = 1

\* the POST being served is handed to the transport of its session id
HandedOver == Served /\ http'.status = 202
Target == MapGet(activeTransports, http.req.sessionId)

\* C33: a POST is handed to a session's transport only when its credential
\* authenticates the user who opened the session's channel; a tool handler
\* runs under a session owner's identity only for a POST of that owner
C33_SessionOwnership ==
    [][/\ HandedOver => AuthUser(http.req.cred) = userOf[Target]
       /\ handlerRuns' # handlerRuns =>
             Served /\ AuthUser(http.req.cred) = userOf[Target]]_vars

\* C37: once close() has completed on a transport it stays closed: no send
\* or sendEndpoint appends an event any more, and no method makes the
\* transport Ready again
C37_ClosedIsFinal ==
    [][\A t \in TransportIds :
          sink[t] = "closed" =>
              /\ sink'[t] = "closed"
              /\ ~writer'[t]
              /\ sendLog'[t] = sendLog[t]
              /\ pending'[t] = pending[t]]_vars

\* the endpoint event of transport t is written for a connected client, or
\* read by the client, in this step
AnnouncesTo(t) ==
    \/ /\ open[t]
       /\ sendLog'[t] # sendLog[t]
       /\ sendLog'[t][Len(sendLog'[t])].event = "endpoint"
    \/ /\ channel'[t] # channel[t]
       /\ channel'[t][Len(channel'[t])].event = "endpoint"
AnnouncedSid(t) ==
    IF channel'[t] # channel[t] THEN channel'[t][Len(channel'[t])].sessionId
    ELSE sendLog'[t][Len(sendLog'[t])].sessionId

\* C35: when an endpoint event is announced on a channel, the session id it
\* embeds is registered in the directory and resolves to the transport of
\* that channel
C35_EndpointRoundTrip ==
    [][\A t \in TransportIds :
          AnnouncesTo(t) =>
              /\ AnnouncedSid(t) \in SessionIds
              /\ MapGet(activeTransports, AnnouncedSid(t)) = t
              /\ MapGet(activeTransports', AnnouncedSid(t)) = t]_vars
\* two sessions are registered and the client of each has read its own id
C35_Witness ==
    \A t \in TransportIds :
        /\ channel[t] # <<>>
        /\ channel[t][1] = EndpointEvent(sessionOf[t])
        /\ MapGet(activeTransports, sessionOf[t]) = t

\* the endpoint events written on transport t so far
EndpointsWritten(t) ==
    Cardinality({i \in DOMAIN sendLog[t] : sendLog[t][i].event = "endpoint"})
\* a step leaves every session other than that of t as it was
OthersUntouched(t) ==
    /\ activeTransports' = activeTransports
    /\ \A x \in TransportIds \ {t} :
          /\ sendLog'[x] = sendLog[x]
          /\ pending'[x] = pending[x]
          /\ writer'[x] = writer[x]
          /\ sink'[x] = sink[x]
          /\ timer'[x] = timer[x]

====
